---- MODULE Spec2Model ----
(***************************************************************************)
(* Dedup (main.go): compares two paths, and replaces every destination     *)
(* file that has the same base name and the same size as a source file by  *)
(* a symbolic link to that source file.                                    *)
(*                                                                         *)
(* The model holds a small file system (regular files, directories,       *)
(* symbolic links, special files), the command line, the two catalog      *)
(* goroutines of getFilesParallel, and one goroutine per duplicate of      *)
(* replaceConcurrently, whose four system calls interleave.                *)
(***************************************************************************)
EXTENDS Integers, Sequences, FiniteSets, TLC

(***************************************************************************)
(* Bounds of the model.                                                    *)
(***************************************************************************)
MaxSize == 2        \* file sizes are 1..MaxSize
MaxLinkHops == 2    \* symbolic links followed by one path resolution
MaxEnvOps == 1      \* removals done by an actor outside the program

(***************************************************************************)
(* Path strings. A path string is absolute or relative to the working      *)
(* directory, which is the root directory here; comps are its components.  *)
(***************************************************************************)
AbsPath(comps) == [abs |-> TRUE, comps |-> comps]
RelPath(comps) == [abs |-> FALSE, comps |-> comps]
NoPath == [abs |-> FALSE, comps |-> <<>>]

\* filepath.Join(path, name)
Join(path, name) == [abs |-> path.abs, comps |-> Append(path.comps, name)]

\* a slip: the name of the directory the path lies in (filepath.Dir's end)
BaseOfDir(path) ==
    IF Len(path.comps) < 2 THEN (IF path.abs THEN "/" ELSE ".")
    ELSE path.comps[Len(path.comps) - 1]

\* filepath.Base(path): the last component ("/" or "." when there is none)
Base(path) ==
    IF path.comps = <<>> THEN (IF path.abs THEN "/" ELSE ".")
    ELSE path.comps[Len(path.comps)]

(***************************************************************************)
(* File names, in the order os.ReadDir sorts them (by file name).          *)
(***************************************************************************)
NameOrder == <<"0", "a", "b", "d", "m", "s">>
Rank(name) == CHOOSE i \in 1..Len(NameOrder) : NameOrder[i] = name

(***************************************************************************)
(* The file system: the node at each absolute location. The root           *)
(* directory <<>> always exists and is a directory.                        *)
(***************************************************************************)
Locs == { <<"s">>, <<"s", "a">>, <<"s", "b">>, <<"s", "m">>, <<"s", "m", "a">>,
          <<"d">>, <<"d", "a">>, <<"d", "b">>, <<"d", "0">>, <<"d", "0", "a">> }

None == [kind |-> "none", size |-> 0, content |-> 0, target |-> NoPath, readable |-> FALSE]
File(sz, c) == [kind |-> "file", size |-> sz, content |-> c, target |-> NoPath, readable |-> TRUE]
Dir(r) == [kind |-> "dir", size |-> 0, content |-> 0, target |-> NoPath, readable |-> r]
Link(t) == [kind |-> "link", size |-> 0, content |-> 0, target |-> t, readable |-> TRUE]
Special == [kind |-> "special", size |-> 0, content |-> 0, target |-> NoPath, readable |-> TRUE]

Node(f, loc) ==
    IF loc = <<>> THEN Dir(TRUE)
    ELSE IF loc \in DOMAIN f THEN f[loc] ELSE None

Parent(loc) == SubSeq(loc, 1, Len(loc) - 1)

Children(f, loc) ==
    { c \in DOMAIN f : Len(c) = Len(loc) + 1 /\ Parent(c) = loc /\ f[c].kind # "none" }

(***************************************************************************)
(* Path resolution, as the kernel does it: walk the components from the    *)
(* root (or the working directory), following a symbolic link in the       *)
(* middle of the path always and one at its end when followLast; give up   *)
(* after MaxLinkHops links (ELOOP).                                        *)
(* Result: ok (every directory on the way exists), loc (the location       *)
(* reached), node (what is there, None when nothing is).                   *)
(***************************************************************************)
RECURSIVE Walk(_, _, _, _, _)
Walk(f, cur, rest, followLast, fuel) ==
    IF rest = <<>> THEN [ok |-> TRUE, loc |-> cur, node |-> Node(f, cur)]
    ELSE IF Node(f, cur).kind # "dir" THEN [ok |-> FALSE, loc |-> cur, node |-> None]
    ELSE LET next == Append(cur, Head(rest))
             n == Node(f, next)
             last == Tail(rest) = <<>>
         IN IF n.kind = "link" /\ (~last \/ followLast)
            THEN IF fuel = 0 THEN [ok |-> FALSE, loc |-> next, node |-> None]
                 ELSE Walk(f, IF n.target.abs THEN <<>> ELSE cur,
                           n.target.comps \o Tail(rest), followLast, fuel - 1)
            ELSE IF last THEN [ok |-> TRUE, loc |-> next, node |-> n]
            ELSE Walk(f, next, Tail(rest), followLast, fuel)

\* os.Stat(path): follows symbolic links; err when nothing is there
Stat(f, path) ==
    LET w == Walk(f, <<>>, path.comps, TRUE, MaxLinkHops)
    IN [err |-> ~w.ok \/ w.node.kind = "none", loc |-> w.loc, node |-> w.node]

\* a slip: a symbolic link at the end of the path is followed (os.Stat)
LstatFollowing(f, path) ==
    LET w == Walk(f, <<>>, path.comps, TRUE, MaxLinkHops)
    IN [err |-> ~w.ok \/ w.node.kind = "none", loc |-> w.loc, node |-> w.node,
        parentOk |-> w.ok]

\* os.Lstat(path): the node itself, a symbolic link included
Lstat(f, path) ==
    LET w == Walk(f, <<>>, path.comps, FALSE, MaxLinkHops)
    IN [err |-> ~w.ok \/ w.node.kind = "none", loc |-> w.loc, node |-> w.node,
        parentOk |-> w.ok]

\* the names in S, sorted
RECURSIVE SortNames(_)
SortNames(S) ==
    IF S = {} THEN <<>>
    ELSE LET first == CHOOSE n \in S : \A o \in S : Rank(n) <= Rank(o)
         IN <<first>> \o SortNames(S \ {first})

\* os.ReadDir(path): the entries of the directory, sorted by file name
ReadDir(f, path) ==
    LET st == Stat(f, path)
    IN IF st.err \/ st.node.kind # "dir" \/ ~st.node.readable
       THEN [err |-> TRUE, entries |-> <<>>]
       ELSE [err |-> FALSE,
             entries |-> SortNames({ c[Len(c)] : c \in Children(f, st.loc) })]

(***************************************************************************)
(* Catalogs: a map from a file name to fileMetadata {size, path}.          *)
(***************************************************************************)
EmptyMap == <<>>
\* a slip: the directory is recorded as the path, not the file in it
fileMetadataOfDir(sz, path) ==
    [size |-> sz, path |-> [path EXCEPT !.comps = SubSeq(@, 1, Len(@) - 1)]]

fileMetadata(sz, path) == [size |-> sz, path |-> path]

\* fileMap[key] = value
Put(fileMap, key, value) == (key :> value) @@ fileMap

\* a slip: the records of a subdirectory are not merged
MergeDropped(fileMap, inner) == fileMap

\* a slip: a record the map already holds is kept
MergeKeepFirst(fileMap, inner) == fileMap @@ inner

\* for k, v := range inner { fileMap[k] = v }
Merge(fileMap, inner) == inner @@ fileMap

\* a slip: the path is compared too
equalsWithPath(fm, other) == fm.size = other.size /\ fm.path = other.path

\* a slip: <= for ==
equalsAtMost(fm, other) == fm.size <= other.size

\* a comparison that lets the name alone decide
equalsAlways(fm, other) == TRUE

\* fileMetadata.equals: the sizes are equal, the path is ignored
equals(fm, other) == fm.size = other.size

(***************************************************************************)
(* getFiles(path). gone is the set of locations whose entry.Info() fails   *)
(* (an entry that ReadDir listed and that was removed before it was        *)
(* looked at). The result is the catalog, the error ("nil" when none) and  *)
(* the entries a warning was printed for.                                  *)
(***************************************************************************)
\* a slip: the error of an entry ends up as the error of the directory
SkipFatal(acc, entry) == [acc EXCEPT !.err = "access", !.warn = @ \cup {entry}]

\* fmt.Printf("Warning: ...") and continue: the entry is left out
Skip(acc, entry) == [acc EXCEPT !.warn = @ \cup {entry}]

RECURSIVE getFiles(_, _, _)
RECURSIVE ScanEntries(_, _, _, _, _)

\* the loop over the entries of a directory, acc the result so far
ScanEntries(f, path, entries, gone, acc) ==
    IF entries = <<>> THEN acc
    ELSE LET name == Head(entries)
             entry == Join(path, name)
             info == Lstat(f, entry)
             rest == Tail(entries)
         IN IF info.node.kind = "dir"
            THEN LET inner == getFiles(f, entry, gone)
                 IN IF inner.err # "nil"
                    THEN ScanEntries(f, path, rest, gone, Skip(acc, entry))
                    ELSE ScanEntries(f, path, rest, gone,
                            [acc EXCEPT !.files = Merge(@, inner.files),
                                        !.warn = @ \cup inner.warn])
            ELSE IF info.err \/ info.loc \in gone
            THEN ScanEntries(f, path, rest, gone, Skip(acc, entry))
            ELSE IF info.node.kind = "file"
            THEN ScanEntries(f, path, rest, gone,
                    [acc EXCEPT !.files = Put(@, name, fileMetadata(info.node.size, entry))])
            ELSE ScanEntries(f, path, rest, gone, acc)

getFiles(f, path, gone) ==
    LET fileInfo == Stat(f, path)
    IN IF fileInfo.err
       THEN [err |-> "access", files |-> EmptyMap, warn |-> {}]
       ELSE IF fileInfo.node.kind # "dir"
       THEN [err |-> "nil",
             files |-> IF fileInfo.node.kind = "file"
                       THEN Put(EmptyMap, Base(path), fileMetadata(fileInfo.node.size, path))
                       ELSE EmptyMap,
             warn |-> {}]
       ELSE LET dir == ReadDir(f, path)
            IN IF dir.err
               THEN [err |-> "readdir", files |-> EmptyMap, warn |-> {}]
               ELSE ScanEntries(f, path, dir.entries, gone,
                                [err |-> "nil", files |-> EmptyMap, warn |-> {}])

(***************************************************************************)
(* findDuplicates(sourceFiles, destFiles), the source catalog ranged over  *)
(* in the order keys (Go leaves the order of a map range unspecified).     *)
(***************************************************************************)
duplicate(src, dst) == [source |-> src, destination |-> dst]

RECURSIVE findDuplicatesIn(_, _, _)
findDuplicatesIn(keys, sourceFiles, destFiles) ==
    IF keys = <<>> THEN <<>>
    ELSE LET sourceName == Head(keys)
             sourceMetadata == sourceFiles[sourceName]
             rest == findDuplicatesIn(Tail(keys), sourceFiles, destFiles)
         IN IF sourceName \in DOMAIN destFiles
               /\ equals(sourceMetadata, destFiles[sourceName])
            THEN <<duplicate(sourceMetadata.path, destFiles[sourceName].path)>> \o rest
            ELSE rest

\* the orders in which a range over the keys of a map can go
Orders(S) ==
    { o \in [1..Cardinality(S) -> S] : \A i, j \in DOMAIN o : i # j => o[i] # o[j] }

(***************************************************************************)
(* The command line. An argument is a help flag or a path.                 *)
(***************************************************************************)
HelpArg(flag) == [help |-> TRUE, flag |-> flag, path |-> NoPath]
PathArg(path) == [help |-> FALSE, flag |-> "", path |-> path]

SourceArgs == { AbsPath(<<"s">>), RelPath(<<"s">>), AbsPath(<<"s", "a">>) }
DestArgs == { AbsPath(<<"d">>), RelPath(<<"d">>), AbsPath(<<"d", "a">>),
              AbsPath(<<"s">>), AbsPath(<<"s", "m">>) }

ArgLists ==
    { <<PathArg(a), PathArg(b)>> : a \in SourceArgs, b \in DestArgs }
    \cup { <<>>,
           <<PathArg(AbsPath(<<"s">>))>>,
           <<PathArg(AbsPath(<<"s">>)), PathArg(AbsPath(<<"d">>)), PathArg(AbsPath(<<"d">>))>>,
           <<HelpArg("-h")>>,
           <<PathArg(AbsPath(<<"s">>)), HelpArg("--help")>>,
           <<HelpArg("-h"), PathArg(AbsPath(<<"s">>)), PathArg(AbsPath(<<"d">>))>> }

\* validateArgs(): the two paths and whether the arguments are valid
validateArgs(a) ==
    IF \E i \in DOMAIN a : a[i].help
    THEN [valid |-> FALSE, help |-> TRUE, source |-> NoPath, dest |-> NoPath]
    ELSE IF Len(a) # 2
    THEN [valid |-> FALSE, help |-> TRUE, source |-> NoPath, dest |-> NoPath]
    ELSE [valid |-> TRUE, help |-> FALSE, source |-> a[1].path, dest |-> a[2].path]

(***************************************************************************)
(* The state.                                                              *)
(***************************************************************************)
VARIABLES
    fs,           \* the file system
    fs0,          \* the file system when the run started
    args,         \* os.Args[1:]
    pc,           \* where main is
    exit,         \* the exit status, -1 while the process runs
    usage,        \* whether the usage text was printed
    sourcePath,   \* main's sourcePath
    destPath,     \* main's destPath
    bpc,          \* the two goroutines of getFilesParallel
    sourceFiles,  \* getFilesParallel's sourceFiles
    destFiles,    \* getFilesParallel's destFiles
    sourceErr,    \* getFilesParallel's sourceErr
    destErr,      \* getFilesParallel's destErr
    wg,           \* the counter of the sync.WaitGroup in use
    duplicates,   \* main's duplicates
    tpc,          \* where each goroutine of replaceConcurrently is
    trace,        \* the system calls each of them has made, with their outcome
    out,          \* the outcome lines printed for each duplicate
    envLeft,      \* removals the outside actor may still do
    run           \* 1 in a first run of the program, 2 when it is run again

vars == <<fs, fs0, args, pc, exit, usage, sourcePath, destPath, bpc, sourceFiles,
          destFiles, sourceErr, destErr, wg, duplicates, tpc, trace, out, envLeft, run>>

catalogVars == <<bpc, sourceFiles, destFiles, sourceErr, destErr>>
taskVars == <<duplicates, tpc, trace, out>>
mainVars == <<args, pc, exit, usage, sourcePath, destPath, run>>

(***************************************************************************)
(* The file systems a run starts from.                                     *)
(***************************************************************************)
Sizes == 1..MaxSize

WellFormed(f) ==
    \A loc \in DOMAIN f :
        f[loc].kind # "none" => Node(f, Parent(loc)) = Dir(TRUE)

StartFs(ns, nsa, nsb, nsm, nsma, nd, nda, ndb, nd0, nd0a) ==
    (<<"s">> :> ns) @@ (<<"s", "a">> :> nsa) @@ (<<"s", "b">> :> nsb)
    @@ (<<"s", "m">> :> nsm) @@ (<<"s", "m", "a">> :> nsma)
    @@ (<<"d">> :> nd) @@ (<<"d", "a">> :> nda) @@ (<<"d", "b">> :> ndb)
    @@ (<<"d", "0">> :> nd0) @@ (<<"d", "0", "a">> :> nd0a)

InitWith(env, argLists) ==
    /\ \E ns \in {Dir(TRUE), Dir(FALSE), None},
          nsa \in {None} \cup { File(sz, 0) : sz \in Sizes },
          nsb \in {None, File(1, 0)},
          nsm \in {None, Dir(TRUE), Dir(FALSE)},
          nsma \in {None, File(1, 0)},
          nd \in {Dir(TRUE), None, Link(AbsPath(<<"s">>))},
          nda \in {None, Link(AbsPath(<<"s", "a">>))}
                     \cup { File(sz, c) : sz \in Sizes, c \in {0, 1} },
          ndb \in {None, Special} \cup { File(sz, 0) : sz \in Sizes },
          nd0 \in {None, Dir(TRUE)},
          nd0a \in {None, File(1, 0)} :
            LET f == StartFs(ns, nsa, nsb, nsm, nsma, nd, nda, ndb, nd0, nd0a)
            IN WellFormed(f) /\ fs = f /\ fs0 = f
    /\ args \in argLists
    /\ pc = "start"
    /\ exit = -1
    /\ usage = FALSE
    /\ sourcePath = NoPath
    /\ destPath = NoPath
    /\ bpc = [source |-> "idle", dest |-> "idle"]
    /\ sourceFiles = EmptyMap
    /\ destFiles = EmptyMap
    /\ sourceErr = "nil"
    /\ destErr = "nil"
    /\ wg = 0
    /\ duplicates = <<>>
    /\ tpc = <<>>
    /\ trace = <<>>
    /\ out = <<>>
    /\ envLeft = env
    /\ run = 1

Init == InitWith(0, ArgLists)

\* the runs in which an outside actor removes entries: two valid paths
EnvArgLists ==
    { <<PathArg(AbsPath(<<"s">>)), PathArg(AbsPath(<<"d">>))>>,
      <<PathArg(AbsPath(<<"s", "a">>)), PathArg(AbsPath(<<"d", "a">>))>> }

InitEnv == InitWith(MaxEnvOps, EnvArgLists)

(***************************************************************************)
(* main, up to the call of getFilesParallel.                               *)
(***************************************************************************)
\* main: validateArgs, os.Exit(1) when they are not valid; otherwise
\* getFilesParallel adds two to its WaitGroup and starts its two goroutines
Start ==
    /\ pc = "start"
    /\ LET v == validateArgs(args)
       IN IF ~v.valid
          THEN /\ pc' = "exited"
               /\ exit' = 1
               /\ usage' = v.help
               /\ UNCHANGED <<sourcePath, destPath, bpc, wg>>
          ELSE /\ pc' = "wait"
               /\ sourcePath' = v.source
               /\ destPath' = v.dest
               /\ bpc' = [source |-> "run", dest |-> "run"]
               /\ wg' = 2
               /\ UNCHANGED <<exit, usage>>
    /\ UNCHANGED <<fs, fs0, args, run, sourceFiles, destFiles, sourceErr, destErr,
                   envLeft>>
    /\ UNCHANGED taskVars

\* what the outside actor can remove while a catalog is built: nothing, or
\* one entry that is not a directory
GoneSets ==
    {{}} \cup { {l} : l \in { e \in Locs : envLeft > 0 /\ fs[e].kind \notin {"none", "dir"} } }

RemoveAll(f, S) == [l \in DOMAIN f |-> IF l \in S THEN None ELSE f[l]]

\* go func() { defer wg.Done(); sourceFiles, sourceErr = getFiles(sourcePath) }()
BuildSource ==
    /\ bpc.source = "run"
    /\ \E gone \in GoneSets :
        LET r == getFiles(fs, sourcePath, gone)
        IN /\ sourceFiles' = r.files
           /\ sourceErr' = r.err
           /\ fs' = RemoveAll(fs, gone)
           /\ envLeft' = envLeft - Cardinality(gone)
    /\ bpc' = [bpc EXCEPT !.source = "done"]
    /\ wg' = wg - 1
    /\ UNCHANGED <<fs0, destFiles, destErr>>
    /\ UNCHANGED mainVars
    /\ UNCHANGED taskVars

\* go func() { defer wg.Done(); destFiles, destErr = getFiles(destPath) }()
BuildDest ==
    /\ bpc.dest = "run"
    /\ \E gone \in GoneSets :
        LET r == getFiles(fs, destPath, gone)
        IN /\ destFiles' = r.files
           /\ destErr' = r.err
           /\ fs' = RemoveAll(fs, gone)
           /\ envLeft' = envLeft - Cardinality(gone)
    /\ bpc' = [bpc EXCEPT !.dest = "done"]
    /\ wg' = wg - 1
    /\ UNCHANGED <<fs0, sourceFiles, sourceErr>>
    /\ UNCHANGED mainVars
    /\ UNCHANGED taskVars

\* a slip: wg.Add(1) for two goroutines, so that Wait returns after the first
WaitReturnsEarly(counter) == counter <= 1

\* wg.Wait() returns when the counter is zero
WaitReturns(counter) == counter = 0

\* a slip: destErr is not checked
BuildErrorSourceOnly(srcErr, dstErr) == srcErr

\* getFilesParallel's check of the two errors: the error it returns
BuildError(srcErr, dstErr) ==
    IF srcErr # "nil" THEN srcErr
    ELSE IF dstErr # "nil" THEN dstErr
    ELSE "nil"

\* getFilesParallel after wg.Wait(), and main's check of its error
WaitBuilds ==
    /\ pc = "wait"
    /\ WaitReturns(wg)
    /\ IF BuildError(sourceErr, destErr) # "nil"
       THEN pc' = "exited" /\ exit' = 1
       ELSE pc' = "built" /\ exit' = exit
    /\ UNCHANGED <<fs, fs0, args, run, usage, sourcePath, destPath, wg, envLeft>>
    /\ UNCHANGED catalogVars
    /\ UNCHANGED taskVars

\* var duplicates = findDuplicates(sourceFiles, destFiles)
FindDuplicates ==
    /\ pc = "built"
    /\ \E keys \in Orders(DOMAIN sourceFiles) :
          duplicates' = findDuplicatesIn(keys, sourceFiles, destFiles)
    /\ pc' = "found"
    /\ UNCHANGED <<fs, fs0, args, run, exit, usage, sourcePath, destPath, wg, envLeft,
                   tpc, trace, out>>
    /\ UNCHANGED catalogVars

(***************************************************************************)
(* replaceConcurrently(duplicates)                                         *)
(***************************************************************************)
\* wg.Add(len(duplicates)) and one goroutine started for each duplicate
FanOut ==
    /\ pc = "found"
    /\ wg' = wg + Len(duplicates)
    /\ tpc' = [i \in DOMAIN duplicates |-> "statSource"]
    /\ trace' = [i \in DOMAIN duplicates |-> <<>>]
    /\ out' = [i \in DOMAIN duplicates |-> <<>>]
    /\ pc' = "replacing"
    /\ UNCHANGED <<fs, fs0, args, run, exit, usage, sourcePath, destPath, duplicates,
                   envLeft>>
    /\ UNCHANGED catalogVars

Call(op, ok) == [op |-> op, ok |-> ok]

\* a system call of goroutine i that succeeded: on to the next one
Proceed(i, op, next) ==
    /\ tpc' = [tpc EXCEPT ![i] = next]
    /\ trace' = [trace EXCEPT ![i] = Append(@, Call(op, TRUE))]
    /\ UNCHANGED <<out, wg>>

\* a slip: nothing is printed for a replacement that failed
ReturnQuietOnError(i, op, ok) ==
    /\ tpc' = [tpc EXCEPT ![i] = "done"]
    /\ trace' = [trace EXCEPT ![i] = Append(@, Call(op, ok))]
    /\ out' = [out EXCEPT ![i] = IF ok THEN Append(@, "replaced") ELSE @]
    /\ wg' = wg - 1

\* a slip: the goroutine returns without wg.Done()
ReturnWithoutDone(i, op, ok) ==
    /\ tpc' = [tpc EXCEPT ![i] = "done"]
    /\ trace' = [trace EXCEPT ![i] = Append(@, Call(op, ok))]
    /\ out' = [out EXCEPT ![i] = Append(@, IF ok THEN "replaced" ELSE "error")]
    /\ UNCHANGED wg

\* replaceWithSymlink returned in goroutine i: the outcome line is printed,
\* and the deferred wg.Done() runs
Return(i, op, ok) ==
    /\ tpc' = [tpc EXCEPT ![i] = "done"]
    /\ trace' = [trace EXCEPT ![i] = Append(@, Call(op, ok))]
    /\ out' = [out EXCEPT ![i] = Append(@, IF ok THEN "replaced" ELSE "error")]
    /\ wg' = wg - 1

\* _, err := os.Stat(sourceFilePath)
StatSource(i) ==
    /\ tpc[i] = "statSource"
    /\ IF Stat(fs, duplicates[i].source).err
       THEN Return(i, "statSource", FALSE)
       ELSE Proceed(i, "statSource", "statDest")
    /\ UNCHANGED <<fs, fs0, duplicates, envLeft>>
    /\ UNCHANGED mainVars
    /\ UNCHANGED catalogVars

\* a slip: the error of the second stat is dropped
StatDestUnchecked(i) ==
    /\ tpc[i] = "statDest"
    /\ Proceed(i, "statDest", "remove")
    /\ UNCHANGED <<fs, fs0, duplicates, envLeft>>
    /\ UNCHANGED mainVars
    /\ UNCHANGED catalogVars

\* _, err = os.Stat(destFilePath)
StatDest(i) ==
    /\ tpc[i] = "statDest"
    /\ IF Stat(fs, duplicates[i].destination).err
       THEN Return(i, "statDest", FALSE)
       ELSE Proceed(i, "statDest", "remove")
    /\ UNCHANGED <<fs, fs0, duplicates, envLeft>>
    /\ UNCHANGED mainVars
    /\ UNCHANGED catalogVars

\* os.Remove(path): unlinks what the path names (a symbolic link itself, not
\* what it points to), or removes an empty directory
OsRemove(f, path) ==
    LET l == Lstat(f, path)
    IN IF l.err \/ l.loc \notin DOMAIN f
          \/ (l.node.kind = "dir" /\ Children(f, l.loc) # {})
       THEN [err |-> TRUE, fs |-> f]
       ELSE [err |-> FALSE, fs |-> [f EXCEPT ![l.loc] = None]]

\* os.Symlink(oldname, newname): a new symbolic link at newname holding the
\* string oldname; fails when newname exists or its directory does not
OsSymlink(f, oldname, newname) ==
    LET l == Lstat(f, newname)
    IN IF ~l.parentOk \/ l.node.kind # "none" \/ l.loc \notin DOMAIN f
          \/ Node(f, Parent(l.loc)).kind # "dir"
       THEN [err |-> TRUE, fs |-> f]
       ELSE [err |-> FALSE, fs |-> [f EXCEPT ![l.loc] = Link(oldname)]]

\* a slip: the error of os.Remove is dropped
RemoveUnchecked(i) ==
    /\ tpc[i] = "remove"
    /\ LET r == OsRemove(fs, duplicates[i].destination)
       IN /\ fs' = r.fs
          /\ trace' = [trace EXCEPT ![i] = Append(@, Call("remove", ~r.err))]
    /\ tpc' = [tpc EXCEPT ![i] = "symlink"]
    /\ UNCHANGED <<out, wg>>
    /\ UNCHANGED <<fs0, duplicates, envLeft>>
    /\ UNCHANGED mainVars
    /\ UNCHANGED catalogVars

\* err = os.Remove(destFilePath)
Remove(i) ==
    /\ tpc[i] = "remove"
    /\ LET r == OsRemove(fs, duplicates[i].destination)
       IN /\ fs' = r.fs
          /\ IF r.err
             THEN Return(i, "remove", FALSE)
             ELSE Proceed(i, "remove", "symlink")
    /\ UNCHANGED <<fs0, duplicates, envLeft>>
    /\ UNCHANGED mainVars
    /\ UNCHANGED catalogVars

\* err = os.Symlink(sourceFilePath, destFilePath); return err
Symlink(i) ==
    /\ tpc[i] = "symlink"
    /\ LET r == OsSymlink(fs, duplicates[i].source, duplicates[i].destination)
       IN /\ fs' = r.fs
          /\ Return(i, "symlink", ~r.err)
    /\ UNCHANGED <<fs0, duplicates, envLeft>>
    /\ UNCHANGED mainVars
    /\ UNCHANGED catalogVars

\* replaceConcurrently's wg.Wait() returns, and main returns: exit status 0
Finish ==
    /\ pc = "replacing"
    /\ WaitReturns(wg)
    /\ pc' = "exited"
    /\ exit' = 0
    /\ UNCHANGED <<fs, fs0, args, run, usage, sourcePath, destPath, wg, envLeft>>
    /\ UNCHANGED catalogVars
    /\ UNCHANGED taskVars

(***************************************************************************)
(* An actor outside the program removes a file, a link or an empty         *)
(* directory between the catalog build and a replacement, or during one.   *)
(***************************************************************************)
\* what the program will look at again: the two paths of each duplicate, and
\* the directories that hold them (removing anything else goes unnoticed)
EnvTargets ==
    LET named == UNION { { Lstat(fs, duplicates[i].source).loc,
                           Lstat(fs, duplicates[i].destination).loc } : i \in DOMAIN duplicates }
    IN (named \cup { Parent(l) : l \in named \ {<<>>} }) \cap Locs

EnvRemove ==
    /\ envLeft > 0
    /\ pc \in {"found", "replacing"}
    /\ \E loc \in EnvTargets :
        LET r == OsRemove(fs, AbsPath(loc))
        IN ~r.err /\ fs' = r.fs
    /\ envLeft' = envLeft - 1
    /\ UNCHANGED fs0
    /\ UNCHANGED mainVars
    /\ UNCHANGED <<wg>>
    /\ UNCHANGED catalogVars
    /\ UNCHANGED taskVars

Next ==
    \/ Start
    \/ BuildSource
    \/ BuildDest
    \/ WaitBuilds
    \/ FindDuplicates
    \/ FanOut
    \/ \E i \in DOMAIN tpc : StatSource(i)
    \/ \E i \in DOMAIN tpc : StatDest(i)
    \/ \E i \in DOMAIN tpc : Remove(i)
    \/ \E i \in DOMAIN tpc : Symlink(i)
    \/ Finish

NextEnv == Next \/ EnvRemove

Spec == Init /\ [][Next]_vars
SpecEnv == InitEnv /\ [][NextEnv]_vars

(***************************************************************************)
(* Fairness: the Go scheduler runs every goroutine that can run and every  *)
(* system call returns, so the program does not stop while one of its      *)
(* steps is possible. The outside actor is under no obligation to act.     *)
(* A build goroutine is taken by the change of its position: getFiles is   *)
(* total, so the goroutine can return exactly when it runs, and a step of  *)
(* the program moves it to "done" exactly when it is the build step.       *)
(***************************************************************************)
SourceReturns == bpc.source = "run" /\ bpc' = [bpc EXCEPT !.source = "done"]

DestReturns == bpc.dest = "run" /\ bpc' = [bpc EXCEPT !.dest = "done"]

ProgramStep ==
    \/ Start
    \/ WaitBuilds
    \/ FindDuplicates
    \/ FanOut
    \/ \E i \in DOMAIN tpc : StatSource(i) \/ StatDest(i) \/ Remove(i) \/ Symlink(i)
    \/ Finish

\* The runs followed to their end: dedup /s /d where /s holds the files a
\* and b and /d a file b and perhaps a file a, of any sizes, so that two,
\* one or no pair is found; an outside actor may remove entries.
FairArgLists == { <<PathArg(AbsPath(<<"s">>)), PathArg(AbsPath(<<"d">>))>> }

FairStart(f) ==
    /\ f[<<"s">>] = Dir(TRUE) /\ f[<<"d">>] = Dir(TRUE)
    /\ f[<<"s", "a">>] = File(1, 0) /\ f[<<"s", "b">>] = File(1, 0)
    /\ f[<<"s", "m">>] = None /\ f[<<"d", "0">>] = None
    /\ f[<<"d", "a">>] \in {None} \cup { File(sz, 0) : sz \in Sizes }
    /\ f[<<"d", "b">>].kind = "file"

InitFair == InitWith(MaxEnvOps, FairArgLists) /\ FairStart(fs)

SpecFair ==
    /\ InitFair /\ [][NextEnv]_vars
    /\ WF_bpc(SourceReturns) /\ WF_bpc(DestReturns)
    /\ WF_vars(ProgramStep)

(***************************************************************************)
(* The program run a second time with the same arguments, after a run in   *)
(* which every replacement succeeded: main starts afresh on the file       *)
(* system the first run left, which is from then on the file system "when  *)
(* the run started".                                                       *)
(***************************************************************************)
RerunArgLists ==
    { <<PathArg(AbsPath(<<"s">>)), PathArg(AbsPath(<<"d">>))>>,
      <<PathArg(RelPath(<<"s">>)), PathArg(AbsPath(<<"d">>))>>,
      <<PathArg(AbsPath(<<"s">>)), PathArg(AbsPath(<<"s", "m">>))>> }

InitRerun == InitWith(0, RerunArgLists)

Rerun ==
    /\ pc = "exited" /\ exit = 0 /\ run = 1
    /\ \A i \in DOMAIN out : out[i] = <<"replaced">>
    /\ run' = 2
    /\ fs0' = fs
    /\ pc' = "start"
    /\ exit' = -1
    /\ usage' = FALSE
    /\ sourcePath' = NoPath
    /\ destPath' = NoPath
    /\ bpc' = [source |-> "idle", dest |-> "idle"]
    /\ sourceFiles' = EmptyMap
    /\ destFiles' = EmptyMap
    /\ sourceErr' = "nil"
    /\ destErr' = "nil"
    /\ duplicates' = <<>>
    /\ tpc' = <<>>
    /\ trace' = <<>>
    /\ out' = <<>>
    /\ UNCHANGED <<fs, args, wg, envLeft>>

NextRerun == Next \/ Rerun

SpecRerun == InitRerun /\ [][NextRerun]_vars

(***************************************************************************)
(* Notions the properties below are stated with.                           *)
(***************************************************************************)
Range(q) == { q[i] : i \in DOMAIN q }
Last(q) == q[Len(q)]

\* goroutine i has made the system call op
Called(i, op) == \E n \in DOMAIN trace[i] : trace[i][n].op = op

\* getFilesParallel has returned to main without an error
Built == pc \in {"built", "found", "replacing"} \/ (pc = "exited" /\ exit = 0)

\* the node a path names, without following a symbolic link at its end
At(f, path) == Lstat(f, path).node

(***************************************************************************)
(* C1: when the catalog build of either root fails (the root cannot be     *)
(* stat'ed, or the top-level directory cannot be listed), main never gets  *)
(* past getFilesParallel: no goroutine of replaceConcurrently is started,  *)
(* no remove and no symlink is executed, the file system stays as it was   *)
(* when the run started, and the run ends with exit status 1.              *)
(***************************************************************************)
C1_AbortOnBuildFailure ==
    (sourceErr # "nil" \/ destErr # "nil") =>
        /\ pc \in {"wait", "exited"}
        /\ (pc = "exited" => exit = 1)
        /\ duplicates = <<>> /\ tpc = <<>> /\ trace = <<>>
        /\ fs = fs0

\* a run that ended because the top-level directory of the source could not
\* be listed, while the destination catalog had entries
C1_Witness ==
    /\ pc = "exited" /\ exit = 1
    /\ sourceErr = "readdir" /\ destErr = "nil"
    /\ DOMAIN destFiles # {}

(***************************************************************************)
(* C2 (as claimed): every file recorded in the source catalog is, in every *)
(* state of the run, still a regular file at its path with the size and    *)
(* the content it had when the run started.                                *)
(***************************************************************************)
C2_SourceNeverModified ==
    Built =>
        \A k \in DOMAIN sourceFiles :
            /\ At(fs, sourceFiles[k].path).kind = "file"
            /\ At(fs, sourceFiles[k].path) = At(fs0, sourceFiles[k].path)

\* the state replaceWithSymlink(duplicates[i]) promises when it returns nil
ReplacedAsPromised(f, i) ==
    LET src == duplicates[i].source
        dst == duplicates[i].destination
    IN /\ At(f, dst).kind = "link"
       /\ ~Stat(f, dst).err
       /\ Stat(f, dst).loc = Lstat(fs0, src).loc
       /\ At(f, src).kind = "file"
       /\ At(f, src) = At(fs0, src)

(***************************************************************************)
(* C3 (as claimed): whenever replaceWithSymlink returns success for a      *)
(* pair, the destination path exists, is a symbolic link and resolves to   *)
(* the source's absolute path, and the source is untouched: a regular      *)
(* file, not a link, with the size and content it had.                     *)
(***************************************************************************)
C3_SuccessMeansLinked ==
    [][\A i \in DOMAIN tpc :
          (tpc[i] = "symlink" /\ out'[i] = <<"replaced">>)
              => ReplacedAsPromised(fs', i)]_vars

(***************************************************************************)
(* C4: a replacement whose source or destination path is absent when it    *)
(* is re-stat'ed returns an error at that step: the failure line is        *)
(* printed, the goroutine is done, the file system is left as it was, and  *)
(* the goroutine has made and will make no remove and no symlink call.     *)
(***************************************************************************)
C4_StatFailureStep(i) ==
    \/ /\ tpc[i] = "statSource" /\ tpc'[i] # "statSource"
       /\ Stat(fs, duplicates[i].source).err
    \/ /\ tpc[i] = "statDest" /\ tpc'[i] # "statDest"
       /\ Stat(fs, duplicates[i].destination).err

C4_FailedAtStat(i) ==
    /\ trace[i] # <<>>
    /\ Last(trace[i]).op \in {"statSource", "statDest"}
    /\ ~Last(trace[i]).ok

C4_AbsentPathFails ==
    /\ [][\A i \in DOMAIN tpc :
            C4_StatFailureStep(i) =>
                /\ tpc'[i] = "done"
                /\ out'[i] = <<"error">>
                /\ fs' = fs]_vars
    /\ [](\A i \in DOMAIN tpc :
            C4_FailedAtStat(i) =>
                /\ tpc[i] = "done"
                /\ out[i] = <<"error">>
                /\ ~Called(i, "remove") /\ ~Called(i, "symlink"))

\* the destination was a regular file when the catalogs were built, an
\* outside actor removed it, and the replacement failed at its second stat
C4_Witness ==
    \E i \in DOMAIN tpc :
        /\ trace[i] = <<Call("statSource", TRUE), Call("statDest", FALSE)>>
        /\ At(fs0, duplicates[i].destination).kind = "file"
        /\ At(fs, duplicates[i].destination).kind = "none"
        /\ At(fs, duplicates[i].source) = At(fs0, duplicates[i].source)
        /\ out[i] = <<"error">>

(***************************************************************************)
(* C5: report-and-continue. Each duplicate gets exactly one goroutine,     *)
(* which calls replaceWithSymlink once (it makes each system call at most  *)
(* once, starting with the stat of the source) and prints exactly one      *)
(* outcome line when it is done; when replaceConcurrently has returned,    *)
(* every duplicate has its line, whatever happened to the others.          *)
(***************************************************************************)
C5_CalledOnce(i) ==
    /\ \A m, n \in DOMAIN trace[i] : m # n => trace[i][m].op # trace[i][n].op
    /\ (tpc[i] # "statSource") = (trace[i] # <<>> /\ trace[i][1].op = "statSource")

C5_ReportAndContinue ==
    /\ pc \in {"replacing", "exited"} /\ Built =>
          DOMAIN tpc = DOMAIN duplicates /\ DOMAIN out = DOMAIN duplicates
    /\ \A i \in DOMAIN tpc :
          /\ C5_CalledOnce(i)
          /\ Len(out[i]) = (IF tpc[i] = "done" THEN 1 ELSE 0)
          /\ tpc[i] = "done" =>
                out[i] = <<IF Last(trace[i]).ok THEN "replaced" ELSE "error">>
    /\ pc = "exited" /\ exit = 0 =>
          \A i \in DOMAIN duplicates : tpc[i] = "done" /\ Len(out[i]) = 1

\* a finished run with two duplicates of which one failed and one succeeded
C5_Witness ==
    /\ pc = "exited" /\ exit = 0
    /\ Len(duplicates) = 2
    /\ \E i, j \in DOMAIN out : out[i] = <<"error">> /\ out[j] = <<"replaced">>

(***************************************************************************)
(* C6: the two catalog builds are two concurrent goroutines; each writes   *)
(* only its own catalog and error variable, once; main is past wg.Wait()   *)
(* (it reads the results, runs findDuplicates, starts replacements) only   *)
(* when both goroutines are done.                                          *)
(***************************************************************************)
C6_PastWait == pc \in {"built", "found", "replacing"} \/ (pc = "exited" /\ bpc.source # "idle")

C6_JoinBarrier ==
    /\ [](C6_PastWait => bpc.source = "done" /\ bpc.dest = "done")
    /\ [](tpc # <<>> \/ duplicates # <<>> => bpc.source = "done" /\ bpc.dest = "done")
    /\ [][/\ (<<sourceFiles, sourceErr>>' # <<sourceFiles, sourceErr>>
                 => bpc.source = "run" /\ bpc'.source = "done" /\ bpc'.dest = bpc.dest)
          /\ (<<destFiles, destErr>>' # <<destFiles, destErr>>
                 => bpc.dest = "run" /\ bpc'.dest = "done" /\ bpc'.source = bpc.source)
          /\ (bpc'.source # bpc.source /\ bpc.source = "run"
                 => <<destFiles, destErr>>' = <<destFiles, destErr>>)
          /\ (bpc'.dest # bpc.dest /\ bpc.dest = "run"
                 => <<sourceFiles, sourceErr>>' = <<sourceFiles, sourceErr>>)]_vars

\* main is blocked in wg.Wait(): the destination catalog is built, with
\* entries, and the source goroutine has not run yet
C6_Witness ==
    /\ pc = "wait" /\ wg = 1
    /\ bpc.source = "run" /\ bpc.dest = "done"
    /\ DOMAIN destFiles # {} /\ sourceFiles = EmptyMap

(***************************************************************************)
(* The regular files a recursive descent from a directory reaches: those   *)
(* below it with only directories (no symbolic link) in between.           *)
(***************************************************************************)
Below(root, loc) == Len(root) < Len(loc) /\ SubSeq(loc, 1, Len(root)) = root

Descends(f, root, loc) ==
    /\ Below(root, loc)
    /\ \A n \in (Len(root) + 1)..(Len(loc) - 1) : Node(f, SubSeq(loc, 1, n)).kind = "dir"

RegularUnder(f, root) == { l \in Locs : Descends(f, root, l) /\ f[l].kind = "file" }

\* path names a directory tree that can be read throughout (no I/O error)
ReadableTree(f, path) ==
    LET st == Stat(f, path)
    IN /\ ~st.err /\ st.node.kind = "dir" /\ st.node.readable
       /\ \A l \in Locs : Descends(f, st.loc, l) /\ f[l].kind = "dir" => f[l].readable

\* the location a record of a catalog refers to
RecordLoc(f, rec) == Lstat(f, rec.path).loc

\* the catalogs built so far, each with the path it was built from
BuiltCatalogs ==
    (IF bpc.source = "done" /\ sourceErr = "nil"
     THEN {[path |-> sourcePath, files |-> sourceFiles]} ELSE {})
    \cup (IF bpc.dest = "done" /\ destErr = "nil"
          THEN {[path |-> destPath, files |-> destFiles]} ELSE {})

(***************************************************************************)
(* C7 (as claimed): the catalog of a directory tree without I/O errors     *)
(* has exactly one record per regular file reachable by recursive descent  *)
(* from the root, and no record for anything else.                         *)
(***************************************************************************)
C7_OneRecordPerFile ==
    \A c \in BuiltCatalogs :
        ReadableTree(fs0, c.path) =>
            LET reg == RegularUnder(fs0, Stat(fs0, c.path).loc)
            IN /\ \A l \in reg :
                     Cardinality({ k \in DOMAIN c.files : RecordLoc(fs0, c.files[k]) = l }) = 1
               /\ \A k \in DOMAIN c.files : RecordLoc(fs0, c.files[k]) \in reg

(***************************************************************************)
(* C7 (amended): the catalog of a directory tree without I/O errors has    *)
(* exactly one record per base name borne by a regular file reachable by   *)
(* recursive descent from the root; the record is keyed by that name and   *)
(* holds the path and the size of one of the reachable regular files with  *)
(* that name. Directories, symbolic links and special files have no        *)
(* record.                                                                 *)
(***************************************************************************)
C7_OneRecordPerName ==
    \A c \in BuiltCatalogs :
        ReadableTree(fs0, c.path) =>
            LET reg == RegularUnder(fs0, Stat(fs0, c.path).loc)
            IN /\ DOMAIN c.files = { l[Len(l)] : l \in reg }
               /\ \A k \in DOMAIN c.files :
                     LET l == RecordLoc(fs0, c.files[k])
                     IN /\ l \in reg
                        /\ l[Len(l)] = k
                        /\ Base(c.files[k].path) = k
                        /\ c.files[k].size = fs0[l].size

\* a catalog of a tree holding a special file and two regular files of the
\* same name, one of them in a subdirectory: one record
C7_Witness ==
    \E c \in BuiltCatalogs :
        /\ ReadableTree(fs0, c.path)
        /\ Cardinality(RegularUnder(fs0, Stat(fs0, c.path).loc)) = 2
        /\ Cardinality(DOMAIN c.files) = 1
        /\ \E l \in Locs : Descends(fs0, Stat(fs0, c.path).loc, l) /\ fs0[l].kind = "special"

(***************************************************************************)
(* C8: findDuplicates emits exactly one pair for each name that is in      *)
(* both catalogs with equal recorded sizes and no other pair; the pair     *)
(* carries the source catalog's path as source and the destination         *)
(* catalog's path as destination; content and path do not count; a         *)
(* catalog matched against itself gives a pair for each of its names.      *)
(***************************************************************************)
MatchedNames(A, B) == { k \in DOMAIN A \cap DOMAIN B : A[k].size = B[k].size }

C8_DuplicatesFound == pc \in {"found", "replacing"} \/ (pc = "exited" /\ exit = 0)

C8_ExactlyTheMatches ==
    C8_DuplicatesFound =>
        LET M == MatchedNames(sourceFiles, destFiles)
        IN /\ Len(duplicates) = Cardinality(M)
           /\ \A k \in M :
                 Cardinality({ i \in DOMAIN duplicates :
                     duplicates[i] = [source |-> sourceFiles[k].path,
                                      destination |-> destFiles[k].path] }) = 1
           /\ (sourceFiles = destFiles => Len(duplicates) = Cardinality(DOMAIN sourceFiles))

\* one name matched although the two files differ in content and in path,
\* another name in both catalogs not matched because the sizes differ
C8_Witness ==
    /\ pc = "found"
    /\ Len(duplicates) = 1
    /\ Stat(fs, duplicates[1].source).node.content
          # Stat(fs, duplicates[1].destination).node.content
    /\ \E k \in DOMAIN sourceFiles \cap DOMAIN destFiles :
          sourceFiles[k].size # destFiles[k].size

(***************************************************************************)
(* C9: matching is symmetric: findDuplicates(B, A), in whatever order it   *)
(* ranges over B, gives the pairs of findDuplicates(A, B) with source and  *)
(* destination swapped, hence the same matched names.                      *)
(***************************************************************************)
Swap(dup) == [source |-> dup.destination, destination |-> dup.source]

C9_Symmetric ==
    C8_DuplicatesFound =>
        \A keys \in Orders(DOMAIN destFiles) :
            LET back == findDuplicatesIn(keys, destFiles, sourceFiles)
            IN /\ { Swap(d) : d \in Range(back) } = Range(duplicates)
               /\ Len(back) = Len(duplicates)
               /\ { Base(d.source) : d \in Range(back) }
                     = { Base(d.source) : d \in Range(duplicates) }

\* two catalogs of two names each, one name matched, the other not because
\* the sizes differ
C9_Witness ==
    /\ pc = "found"
    /\ Len(duplicates) = 1
    /\ sourceFiles # destFiles
    /\ Cardinality(DOMAIN destFiles) = 2
    /\ \E k \in DOMAIN sourceFiles \cap DOMAIN destFiles :
          sourceFiles[k].size # destFiles[k].size

(***************************************************************************)
(* C10 (as claimed): the exit status is 0 for every run in which both      *)
(* catalogs were built, whatever the replacements did, and it is non-zero  *)
(* exactly when a root path cannot be accessed or enumerated or when       *)
(* argument validation fails, that is when the number of arguments is not  *)
(* two (a help flag is not a failed validation: it asks for the usage      *)
(* text).                                                                  *)
(***************************************************************************)
HelpAsked == \E i \in DOMAIN args : args[i].help
WrongArgCount == ~HelpAsked /\ Len(args) # 2
RootFailed == sourceErr # "nil" \/ destErr # "nil"

C10_ExitStatus ==
    pc = "exited" =>
        /\ (exit # 0) = (RootFailed \/ WrongArgCount)
        /\ (bpc.source = "done" /\ bpc.dest = "done" /\ ~RootFailed => exit = 0)

(***************************************************************************)
(* C11 (as claimed): a run given a help flag prints the usage text, builds *)
(* no catalog, replaces nothing and ends with exit status 0; a run given   *)
(* any other number of arguments than two prints the usage text and ends   *)
(* with a non-zero exit status.                                            *)
(***************************************************************************)
C11_NothingDone ==
    /\ usage
    /\ bpc = [source |-> "idle", dest |-> "idle"]
    /\ duplicates = <<>> /\ tpc = <<>> /\ trace = <<>>
    /\ fs = fs0

C11_HelpIsInformational ==
    pc = "exited" =>
        /\ (HelpAsked => C11_NothingDone /\ exit = 0)
        /\ (WrongArgCount => C11_NothingDone /\ exit # 0)

(***************************************************************************)
(* C12: a regular file of the destination that is not matched (no source   *)
(* record bears its name, or the source record of its name has another     *)
(* size) is in every state the regular file it was when the run started;   *)
(* the file system differs from its initial state only at destination      *)
(* paths of matched pairs, and only goroutines of matched pairs remove or  *)
(* link.                                                                   *)
(***************************************************************************)
DestTreeFiles ==
    LET st == Stat(fs0, destPath)
    IN IF st.err THEN {}
       ELSE IF st.node.kind = "file" THEN {st.loc}
       ELSE RegularUnder(fs0, st.loc)

Unmatched(l) ==
    LET k == l[Len(l)]
    IN k \notin DOMAIN sourceFiles \/ sourceFiles[k].size # fs0[l].size

MatchedDestinations ==
    { Lstat(fs0, destFiles[k].path).loc : k \in MatchedNames(sourceFiles, destFiles) }

C12_UnmatchedUntouched ==
    C8_DuplicatesFound =>
        /\ \A l \in DestTreeFiles :
              Unmatched(l) => fs[l].kind = "file" /\ fs[l] = fs0[l]
        /\ \A l \in Locs : fs[l] # fs0[l] => l \in MatchedDestinations
        /\ \A i \in DOMAIN trace :
              Called(i, "remove") \/ Called(i, "symlink") =>
                  \E k \in MatchedNames(sourceFiles, destFiles) :
                      duplicates[i].destination = destFiles[k].path

\* the run has ended; one name was matched and its destination is now a
\* link, another name is in both catalogs with different sizes and its
\* destination file is as it was
C12_Witness ==
    /\ pc = "exited" /\ exit = 0
    /\ Len(duplicates) = 1
    /\ At(fs, duplicates[1].destination).kind = "link"
    /\ Stat(fs0, sourcePath).loc # Stat(fs0, destPath).loc
    /\ \E k \in DOMAIN sourceFiles \cap DOMAIN destFiles :
          LET l == Lstat(fs0, destFiles[k].path).loc
          IN /\ l \in DestTreeFiles
             /\ Unmatched(l)
             /\ fs[l].kind = "file" /\ fs[l] = fs0[l]

(***************************************************************************)
(* C13: the catalog of a root that resolves to a regular file has exactly  *)
(* one record, keyed by the file's name (the last component of the root    *)
(* path), with the file's size and the root path; when both roots resolve  *)
(* to regular files of the same name and the same size, findDuplicates     *)
(* gives exactly one pair, the two root paths, and its replacement makes   *)
(* its four system calls and returns success.                              *)
(***************************************************************************)
SingleFileRoot(path) == ~Stat(fs0, path).err /\ Stat(fs0, path).node.kind = "file"

FileName(path) == path.comps[Len(path.comps)]

TwoAlikeFileRoots ==
    /\ SingleFileRoot(sourcePath) /\ SingleFileRoot(destPath)
    /\ FileName(sourcePath) = FileName(destPath)
    /\ Stat(fs0, sourcePath).node.size = Stat(fs0, destPath).node.size

C13_SingleFileRoots ==
    /\ \A c \in BuiltCatalogs :
          SingleFileRoot(c.path) =>
              /\ DOMAIN c.files = {FileName(c.path)}
              /\ c.files[FileName(c.path)]
                    = [size |-> Stat(fs0, c.path).node.size, path |-> c.path]
    /\ (C8_DuplicatesFound /\ TwoAlikeFileRoots =>
            duplicates = <<[source |-> sourcePath, destination |-> destPath]>>)
    /\ (pc = "exited" /\ exit = 0 /\ TwoAlikeFileRoots =>
            /\ out = << <<"replaced">> >>
            /\ [n \in 1..Len(trace[1]) |-> trace[1][n].op]
                  = <<"statSource", "statDest", "remove", "symlink">>
            /\ \A n \in DOMAIN trace[1] : trace[1][n].ok)

\* both roots were regular files of one name and one size; the run has
\* ended and the destination root is now a link
C13_Witness ==
    /\ pc = "exited" /\ exit = 0
    /\ TwoAlikeFileRoots
    /\ At(fs0, sourcePath).kind = "file" /\ At(fs0, destPath).kind = "file"
    /\ Len(duplicates) = 1
    /\ out = << <<"replaced">> >>
    /\ At(fs, destPath).kind = "link"
    /\ At(fs, sourcePath) = At(fs0, sourcePath)

(***************************************************************************)
(* C14: the system calls of a replacement are made in the order stat of    *)
(* the source, stat of the destination, remove, symlink, each only after   *)
(* the one before it succeeded; so the destination is removed only after   *)
(* both stats succeeded and the link is made only after the remove         *)
(* succeeded. When the symlink call fails after the remove succeeded, the  *)
(* replacement returns an error (the failure line is printed) and the      *)
(* destination path stays absent: no link, and the file is not restored.   *)
(***************************************************************************)
ReplaceSteps == <<"statSource", "statDest", "remove", "symlink">>

C14_SymlinkFailed(i) ==
    /\ Len(trace[i]) = 4
    /\ trace[i][3].ok
    /\ ~trace[i][4].ok

C14_OrderedNoRollback ==
    \A i \in DOMAIN trace :
        /\ Len(trace[i]) <= 4
        /\ \A n \in DOMAIN trace[i] :
              /\ trace[i][n].op = ReplaceSteps[n]
              /\ (n < Len(trace[i]) => trace[i][n].ok)
        /\ (C14_SymlinkFailed(i) =>
                /\ tpc[i] = "done"
                /\ out[i] = <<"error">>
                /\ At(fs, duplicates[i].destination).kind = "none")

\* the destination was a regular file and was removed, then an outside
\* actor removed its (now empty) directory and the symlink call failed
C14_Witness ==
    \E i \in DOMAIN trace :
        /\ C14_SymlinkFailed(i)
        /\ At(fs0, duplicates[i].destination).kind = "file"
        /\ At(fs, duplicates[i].destination).kind = "none"
        /\ out[i] = <<"error">>

(***************************************************************************)
(* C15: when several regular files reachable from a readable root share a  *)
(* base name, the catalog's record of that name is the one of the file     *)
(* visited last. os.ReadDir lists a directory sorted by name and a         *)
(* subdirectory is descended into when its entry is reached, so of two     *)
(* files the later visited is the one whose path has the greater name      *)
(* where the two paths first differ. (Stated of the catalogs as the build   *)
(* goroutines leave them; no later step writes to a catalog.)              *)
(***************************************************************************)
FirstDifference(l, o) ==
    CHOOSE j \in 1..Len(l) :
        /\ j <= Len(o) /\ l[j] # o[j]
        /\ \A n \in 1..(j - 1) : l[n] = o[n]

VisitedLater(l, o) ==
    LET j == FirstDifference(l, o) IN Rank(l[j]) > Rank(o[j])

\* the regular files of the tree with the name of l, other than l
Namesakes(c, l) ==
    { o \in RegularUnder(fs0, Stat(fs0, c.path).loc) : o # l /\ o[Len(o)] = l[Len(l)] }

C15_LastVisitedWins ==
    \A c \in BuiltCatalogs :
        pc \in {"wait", "built"} /\ ReadableTree(fs0, c.path) =>
            \A k \in DOMAIN c.files :
                LET l == RecordLoc(fs0, c.files[k])
                IN /\ l \in RegularUnder(fs0, Stat(fs0, c.path).loc)
                   /\ l[Len(l)] = k
                   /\ \A o \in Namesakes(c, l) : VisitedLater(l, o)

\* one catalog whose record is a file of a subdirectory that overwrote a
\* file of the root visited before it, and one whose record is a file of
\* the root that overwrote a file of a subdirectory visited before it
C15_Witness ==
    /\ \E c \in BuiltCatalogs : \E k \in DOMAIN c.files :
          /\ ReadableTree(fs0, c.path)
          /\ \E o \in Namesakes(c, RecordLoc(fs0, c.files[k])) :
                Len(o) < Len(RecordLoc(fs0, c.files[k]))
    /\ \E c \in BuiltCatalogs : \E k \in DOMAIN c.files :
          /\ ReadableTree(fs0, c.path)
          /\ \E o \in Namesakes(c, RecordLoc(fs0, c.files[k])) :
                Len(o) > Len(RecordLoc(fs0, c.files[k]))

(***************************************************************************)
(* C16: a catalog build fails exactly when its root cannot be stat'ed or   *)
(* is a directory that cannot be listed. A subdirectory that cannot be     *)
(* listed and an entry whose metadata cannot be read (it went away after   *)
(* the directory was listed) are skipped: the build returns no error and   *)
(* its catalog has the names of all other regular files that are reached   *)
(* through listable directories, each record referring to such a file.     *)
(* The entries whose metadata could not be read in a build are those the   *)
(* build step takes out of the file system.                                *)
(***************************************************************************)
ListableDescent(f, root, loc) ==
    /\ Below(root, loc)
    /\ \A n \in (Len(root) + 1)..(Len(loc) - 1) : Node(f, SubSeq(loc, 1, n)) = Dir(TRUE)

Cataloged(f, root, gone) ==
    { l \in Locs \ gone : ListableDescent(f, root, l) /\ f[l].kind = "file" }

C16_BuildResult(f, path, gone, files, err) ==
    LET st == Stat(f, path)
    IN /\ (err # "nil") = (st.err \/ (st.node.kind = "dir" /\ ~st.node.readable))
       /\ (err = "nil" /\ st.node.kind = "dir" =>
              /\ DOMAIN files = { l[Len(l)] : l \in Cataloged(f, st.loc, gone) }
              /\ \A k \in DOMAIN files :
                    /\ RecordLoc(f, files[k]) \in Cataloged(f, st.loc, gone)
                    /\ Base(files[k].path) = k)

C16_SkipAndContinue ==
    [][LET gone == { l \in Locs : fs'[l] # fs[l] }
       IN /\ (bpc.source = "run" /\ bpc'.source = "done" =>
                 C16_BuildResult(fs, sourcePath, gone, sourceFiles', sourceErr'))
          /\ (bpc.dest = "run" /\ bpc'.dest = "done" =>
                 C16_BuildResult(fs, destPath, gone, destFiles', destErr'))]_vars

\* the source catalog was built without error although a subdirectory of
\* the root could not be listed and the metadata of one of its files could
\* not be read; that file has no record, another file has one
C16_Witness ==
    /\ bpc.source = "done" /\ bpc.dest = "run"
    /\ sourceErr = "nil"
    /\ DOMAIN sourceFiles # {}
    /\ LET root == Stat(fs0, sourcePath).loc
       IN /\ \E l \in Locs : Parent(l) = root /\ fs0[l] = Dir(FALSE)
          /\ \E l \in Locs :
                /\ Parent(l) = root /\ fs0[l].kind = "file" /\ fs[l] = None
                /\ l[Len(l)] \notin DOMAIN sourceFiles

(***************************************************************************)
(* C17 (as claimed): for every path given to getFiles, a root argument     *)
(* included, no symbolic link is followed or recorded as a regular file:   *)
(* the path of every record of a catalog names a regular file and passes   *)
(* through no symbolic link.                                               *)
(***************************************************************************)
NoLinkOn(f, path) ==
    \A n \in 1..Len(path.comps) : Node(f, SubSeq(path.comps, 1, n)).kind # "link"

C17_NoSymlinkRecorded ==
    \A c \in BuiltCatalogs :
        \A k \in DOMAIN c.files :
            /\ At(fs0, c.files[k].path).kind = "file"
            /\ NoLinkOn(fs0, c.files[k].path)

(***************************************************************************)
(* C18: the pairs of a pair list name disjoint paths: the destination      *)
(* paths are pairwise distinct, no pair's destination is another pair's    *)
(* source, and no path of one pair (as a path string, and as the location  *)
(* it names) is a path of another. So the goroutines of                    *)
(* replaceConcurrently, each of which stats, removes and links only the    *)
(* two paths of its pair, never act on the same path.                      *)
(***************************************************************************)
PairPaths(i) == {duplicates[i].source, duplicates[i].destination}

PairLocs(i) == { Lstat(fs0, p).loc : p \in PairPaths(i) }

C18_DisjointPairs ==
    C8_DuplicatesFound =>
        \A i, j \in DOMAIN duplicates :
            i # j =>
                /\ duplicates[i].destination # duplicates[j].destination
                /\ duplicates[i].destination # duplicates[j].source
                /\ PairPaths(i) \cap PairPaths(j) = {}
                /\ PairLocs(i) \cap PairLocs(j) = {}

\* two replacements under way at once, both about to remove
C18_Witness ==
    /\ pc = "replacing"
    /\ Len(duplicates) = 2
    /\ tpc = <<"remove", "remove">>
    /\ At(fs, duplicates[1].destination).kind = "file"
    /\ At(fs, duplicates[2].destination).kind = "file"

(***************************************************************************)
(* C19 (as claimed): a second run with the same arguments, after a run     *)
(* over two distinct directory roots in which every replacement            *)
(* succeeded, finds no duplicate, makes no system call of a replacement    *)
(* and leaves the file system as the first run left it.                    *)
(***************************************************************************)
DistinctDirRoots ==
    LET s == Stat(fs0, args[1].path)
        d == Stat(fs0, args[2].path)
    IN /\ ~s.err /\ s.node.kind = "dir"
       /\ ~d.err /\ d.node.kind = "dir"
       /\ s.loc # d.loc

C19_NothingReplaced ==
    /\ duplicates = <<>>
    /\ \A i \in DOMAIN trace : trace[i] = <<>>
    /\ fs = fs0

C19_RerunIsNoOp ==
    run = 2 /\ DistinctDirRoots => C19_NothingReplaced

(***************************************************************************)
(* C19 (amended): in such a second run no pair has an already linked       *)
(* destination entry as its destination (every destination is a regular    *)
(* file at the start of the second run); and when no two entries that are  *)
(* not directories share a base name under the destination root, the       *)
(* second run finds no duplicate, makes no system call of a replacement    *)
(* and leaves the file system as the first run left it.                    *)
(***************************************************************************)
DestEntries ==
    LET root == Stat(fs0, args[2].path).loc
    IN { l \in Locs : Descends(fs0, root, l) /\ fs0[l].kind \notin {"none", "dir"} }

NoNamesakes == \A l, o \in DestEntries : l # o => l[Len(l)] # o[Len(o)]

C19_RerunSkipsLinks ==
    run = 2 /\ DistinctDirRoots =>
        /\ \A i \in DOMAIN duplicates : At(fs0, duplicates[i].destination).kind = "file"
        /\ (NoNamesakes => C19_NothingReplaced)

\* a destination entry that is a link to the source file of its name
LinkedToSource(l) ==
    /\ fs[l].kind = "link"
    /\ ~Stat(fs, AbsPath(l)).err
    /\ l[Len(l)] \in DOMAIN sourceFiles
    /\ Stat(fs, AbsPath(l)).loc = RecordLoc(fs, sourceFiles[l[Len(l)]])

\* the second run has ended: two destination entries are links to source
\* files (an initial file system holds at most one link, so the first run
\* made one of them at least), they are still links, and nothing was found
C19_Witness ==
    /\ run = 2 /\ pc = "exited" /\ exit = 0
    /\ DistinctDirRoots /\ NoNamesakes
    /\ Cardinality({ l \in DestEntries : LinkedToSource(l) }) = 2
    /\ duplicates = <<>>
    /\ fs = fs0

(***************************************************************************)
(* C20: fan-out and fan-in terminate. replaceConcurrently starts one       *)
(* goroutine per pair of the list (none for the empty list); the counter   *)
(* of the WaitGroup is never negative and is, while the goroutines run,    *)
(* the number of those that have not returned, so each of them signals     *)
(* its completion exactly once, whether its replacement succeeded or       *)
(* failed, and prints exactly one outcome line; replaceConcurrently        *)
(* returns only after all of them have returned, and it does return. In    *)
(* the same way getFilesParallel's counter is the number of build          *)
(* goroutines still running, and getFilesParallel returns.                 *)
(***************************************************************************)
Running(procs) == Cardinality({ i \in DOMAIN procs : procs[i] # "done" })

C20_Counted ==
    /\ wg >= 0
    /\ (pc = "wait" => wg = Running(bpc))
    /\ (pc = "replacing" =>
            /\ Len(tpc) = Len(duplicates)
            /\ wg = Running(tpc))
    /\ \A i \in DOMAIN tpc :
          /\ Len(out[i]) = (IF tpc[i] = "done" THEN 1 ELSE 0)
          /\ tpc[i] = "done" <=> (trace[i] # <<>> /\
                                    (~Last(trace[i]).ok \/ Last(trace[i]).op = "symlink"))
    /\ (pc = "exited" /\ exit = 0 => Len(tpc) = Len(duplicates) /\ Running(tpc) = 0)

C20_FanInTerminates ==
    /\ []C20_Counted
    /\ (pc = "wait") ~> (pc # "wait" /\ Running(bpc) = 0)
    /\ (pc = "found") ~> (pc = "exited" /\ exit = 0 /\ Running(tpc) = 0)

\* two goroutines were started, one replaced its file and the other failed;
\* both have returned and wg.Wait() is about to return
C20_Witness ==
    /\ pc = "replacing"
    /\ Len(duplicates) = 2
    /\ wg = 0
    /\ \E i, j \in DOMAIN out : out[i] = <<"replaced">> /\ out[j] = <<"error">>

====
